---- MODULE Spec2Model ----
(***************************************************************************)
(* Model of the DeepSeek completion client of src/security_suite.py:       *)
(* DeepSeekSecuritySuite.set_system_prompt, clear_history, call_deepseek   *)
(* and the generator stream_call_deepseek, driven by one single-threaded   *)
(* caller.  Every requests.post, every time.sleep and every frame of a     *)
(* streamed body is one step whose outcome the environment chooses.        *)
(*                                                                         *)
(* Texts are sequences of symbols (the empty text is << >>); an optional   *)
(* value (Python None / a missing dict key) is a sequence of length 0 or 1.*)
(***************************************************************************)
EXTENDS Integers, Sequences, FiniteSets, TLC

\* ---------------------------------------------------------------- bounds
MaxRetries == 2          \* max_retries is drawn from 0..MaxRetries
MaxOps == 2              \* operations the caller starts in one run
MaxFragments == 1        \* text fragments the server sends in one streamed body
MaxRetriesDeep == 5      \* the same two bounds for a run of one operation
MaxFragmentsDeep == 2
MaxCommandLen == 4       \* characters of a command drawn from ExtractAlphabet
MaxPieces == 2           \* pieces of a command the timeout rules are tried on
MaxLines == 2            \* lines of a block of generated commands
MaxWebRequests == 2      \* HTTP requests the web server takes

\* ------------------------------------------------------- input alphabets
CallMessages   == { <<"m1">> }      \* the message of a call_deepseek
StreamMessages == { <<"m2">> }      \* the message of a stream_call_deepseek
Prompts   == { <<"p1">>, <<"p2">> }
NoArg     == << >>                      \* system_prompt=None (or "")
PromptArgs == { NoArg, <<"p2">> }       \* the system_prompt argument of a call
Replies   == { << >>, <<"r">> }         \* assistant texts; << >> is ""
FragmentScript == << <<"a">>, <<"b">>, <<"c">>, <<"d">> >>
                                        \* the delta contents of a body, in the
                                        \*   order the server sends them
Fragments == { FragmentScript[i] : i \in 1..Len(FragmentScript) }
Statuses  == { 200, 400, 429, 500 }

\* ------------------------------------------------------------ JSON bodies
\* {"choices": [{"message": {"content": t}}]}
BodyWithContent(t) ==
    [json |-> "valid", choices |-> << << [message |-> << [content |-> <<t>>] >>] >> >>]
\* {"choices": [{"message": {}}]}
BodyMissingContent ==
    [json |-> "valid", choices |-> << << [message |-> << [content |-> << >>] >>] >> >>]
\* {"choices": []}
BodyEmptyChoices == [json |-> "valid", choices |-> << << >> >>]
\* {}
BodyEmptyObject == [json |-> "valid", choices |-> << >>]
\* a body that is not JSON; response.json() raises requests' JSONDecodeError
\* (a RequestException) or, with an older requests, the json module's one
BodyNotJson(how) == [json |-> how, choices |-> << >>]
NoBody == BodyEmptyObject

Bodies ==
    { BodyWithContent(t) : t \in Replies }
      \cup { BodyMissingContent, BodyEmptyChoices, BodyEmptyObject }
      \cup { BodyNotJson(how) : how \in {"requests_error", "json_error"} }

\* what one requests.post can produce
Outcomes ==
    { [kind |-> k, status |-> 0, body |-> NoBody] :
          k \in {"Timeout", "ConnectionError", "RequestException"} }
      \cup { [kind |-> "response", status |-> s, body |-> NoBody] :
                 s \in Statuses \ {200} }
      \cup { [kind |-> "response", status |-> 200, body |-> b] : b \in Bodies }

\* a transient failure: timeout, connection failure, HTTP 5xx or 429
Transient(o) ==
    \/ o.kind \in {"Timeout", "ConnectionError"}
    \/ o.kind = "response" /\ (o.status = 429 \/ (o.status >= 500 /\ o.status <= 599))

\* ------------------------------------------------------------ exceptions
NoException == [type |-> "None", status |-> 0]
Exc(t) == [type |-> t, status |-> 0]
HTTPError(s) == [type |-> "HTTPError", status |-> s]

\* requests.Response.raise_for_status
raise_for_status(status) == status >= 400 /\ status < 600

\* result.get('choices', [{}])[0].get('message', {}).get('content')
ParseContent(body) ==
    IF body.json = "requests_error" THEN [exc |-> Exc("RequestException"), content |-> << >>]
    ELSE IF body.json = "json_error" THEN [exc |-> Exc("JSONDecodeError"), content |-> << >>]
    ELSE LET choices == IF body.choices = << >>
                        THEN << [message |-> << >>] >>
                        ELSE body.choices[1]
         IN  IF choices = << >>
             THEN [exc |-> Exc("IndexError"), content |-> << >>]
             ELSE LET message == IF choices[1].message = << >>
                                 THEN [content |-> << >>]
                                 ELSE choices[1].message[1]
                  IN  [exc |-> NoException, content |-> message.content]

\* the exception one attempt of call_deepseek ends with (NoException: none)
AttemptException(o) ==
    IF o.kind # "response" THEN Exc(o.kind)
    ELSE IF raise_for_status(o.status) THEN HTTPError(o.status)
    ELSE LET p == ParseContent(o.body)
         IN  IF p.exc # NoException THEN p.exc
             ELSE IF p.content = << >> THEN Exc("DeepSeekResponseError")
             ELSE NoException

\* the assistant_message of a successful attempt
AssistantMessage(o) == ParseContent(o.body).content[1]

\* variant: every HTTP error status is retried, none is a client error
ClientErrorStatus_Never(status) == FALSE

\* "Don't retry on 4xx client errors (except 429 rate limit)"
ClientErrorStatus(status) == status < 500 /\ status # 429

Retry == [retry |-> TRUE, error |-> "none", line |-> 0]
Raise(e, l) == [retry |-> FALSE, error |-> e, line |-> l]

\* the except clauses of call_deepseek, in order
CallExcept(exc) ==
    IF exc.type = "HTTPError"
    THEN IF ClientErrorStatus(exc.status) THEN Raise("DeepSeekAPIError", 157)
         ELSE Retry
    ELSE IF exc.type \in {"Timeout", "ConnectionError"} THEN Retry
    ELSE IF exc.type = "RequestException" THEN Raise("DeepSeekRequestError", 166)
    ELSE IF exc.type \in {"KeyError", "IndexError", "JSONDecodeError"}
         THEN Raise("DeepSeekResponseError", 169)
    ELSE Raise("DeepSeekError", 172)

\* "All retries exhausted": the error raised after the loop
CallExhausted(last) ==
    IF last.type = "Timeout" THEN Raise("DeepSeekRequestError", 182)
    ELSE IF last.type = "ConnectionError" THEN Raise("DeepSeekRequestError", 188)
    ELSE IF last.type = "HTTPError" THEN Raise("DeepSeekAPIError", 193)
    ELSE Raise("DeepSeekRequestError", 195)

\* variant: range(self.max_retries + 1), one attempt too many
InRange_OneMore(a, retries) == a <= retries

\* for attempt in range(self.max_retries): is there an attempt numbered a
InRange(a, retries) == a < retries

\* variant: the backoff is made after the final attempt too
BackoffDue_Always(attempt, retries) == attempt < retries

\* if attempt < self.max_retries - 1: back off before the next attempt
BackoffDue(attempt, retries) == attempt < retries - 1

\* variant: the exponent counts attempts from 1
wait_time_Shifted(attempt) == (2 ^ (attempt + 1)) + 1

\* wait_time = (2 ** attempt) + 1
wait_time(attempt) == (2 ^ attempt) + 1

\* ------------------------------------------------- stream_call_deepseek
\* one line of response.iter_lines(), already decoded:
\*   line    "blank" (keep-alive), "other" (no 'data: ' prefix), "data"
\*   payload "DONE" ('[DONE]'), "json" (json.loads succeeds), "garbage"
\*   choices "absent", "empty" ([]), "one" ([{"delta": ...}])
\*   content the delta's content: << >> absent/null, <<t>> the text t
Frame(l, p, ch, c) == [line |-> l, payload |-> p, choices |-> ch, content |-> c]
BlankFrame == Frame("blank", "json", "absent", << >>)
OtherFrame == Frame("other", "json", "absent", << >>)
DoneFrame == Frame("data", "DONE", "absent", << >>)
GarbageFrame == Frame("data", "garbage", "absent", << >>)
DeltaFrame(ch, c) == Frame("data", "json", ch, c)

\* frames that do not end the attempt
BodyFrames ==
    { BlankFrame, OtherFrame, DeltaFrame("absent", << >>), DeltaFrame("one", << >>),
      DeltaFrame("one", << << >> >>) }
      \cup { DeltaFrame("one", <<f>>) : f \in Fragments }
\* frames that end it, and the ways the body can end without a frame
EndFrames == { DoneFrame, GarbageFrame, DeltaFrame("empty", << >>) }
BodyEnds == { "eof", "ConnectionError", "ChunkedEncodingError" }

\* what the loop body of "for line in response.iter_lines()" does with a line
FrameEffect(f) ==
    IF f.line # "data" THEN "skip"
    ELSE IF f.payload = "DONE" THEN "break"
    ELSE IF f.payload = "garbage" THEN "DeepSeekResponseError"
    ELSE IF f.choices = "empty" THEN "IndexError"
    ELSE IF f.choices = "absent" \/ f.content = << >> \/ f.content[1] = << >>
         THEN "skip"
    ELSE "yield"

\* variant: the fragments are joined last first
RECURSIVE Join_Reversed(_)
Join_Reversed(parts) ==
    IF parts = << >> THEN << >> ELSE Join_Reversed(Tail(parts)) \o Head(parts)

\* "".join(full_response_content)
RECURSIVE Join(_)
Join(parts) == IF parts = << >> THEN << >> ELSE Head(parts) \o Join(Tail(parts))

\* the except clauses of stream_call_deepseek, in order
StreamExcept(exc) ==
    IF exc.type = "HTTPError"
    THEN IF ClientErrorStatus(exc.status) THEN Raise("DeepSeekAPIError", 246)
         ELSE Retry
    ELSE IF exc.type \in {"Timeout", "ConnectionError"} THEN Retry
    ELSE IF exc.type \in {"RequestException", "ChunkedEncodingError"}
         THEN Raise("DeepSeekRequestError", 255)
    ELSE Raise("DeepSeekError", 258)

\* "All retries exhausted" of stream_call_deepseek
StreamExhausted(last) ==
    IF last.type = "Timeout" THEN Raise("DeepSeekRequestError", 269)
    ELSE IF last.type = "ConnectionError" THEN Raise("DeepSeekRequestError", 275)
    ELSE IF last.type = "HTTPError" THEN Raise("DeepSeekAPIError", 280)
    ELSE Raise("DeepSeekRequestError", 282)

\* self.timeout (the constructor's default) and the streaming timeout
timeout == 120
stream_timeout == timeout * 3

\* what the message of the error raised at a line of the source interpolates:
\* <<n>> the attempt count n, <<t>> the timeout value t, << >> neither
ErrorMessage(line, retries) ==
    CASE line = 182 -> [attempts |-> <<retries>>, timeout |-> <<timeout>>]
      [] line = 269 -> [attempts |-> <<retries>>, timeout |-> <<stream_timeout>>]
      [] line \in {188, 195, 275, 282} -> [attempts |-> <<retries>>, timeout |-> << >>]
      [] OTHER -> [attempts |-> << >>, timeout |-> << >>]

\* variant: the buffer is kept across the retry
ResetContent_Keep(content) == content

\* full_response_content = []  # Reset for retry
ResetContent(content) == << >>

\* variant: leaving the with block leaves the response as it is
WithExit_Leak(response) == response

\* leaving "with requests.post(...) as response:" closes the response
WithExit(response) == "closed"

\* what the generator hands to its consumer
FragmentItem(t) == [kind |-> "fragment", text |-> t, attempt |-> 0, wait |-> 0]
NoticeItem(a, w) == [kind |-> "notice", text |-> << >>, attempt |-> a, wait |-> w]

\* ----------------------------------------------------------- the history
Turn(r, c) == [role |-> r, content |-> c]

\* variant: the system turn is always inserted, never replaced
set_system_prompt_AlwaysInsert(h, p) == <<Turn("system", p)>> \o h

\* DeepSeekSecuritySuite.set_system_prompt, as a function of the history
set_system_prompt(h, p) ==
    IF h # << >> /\ h[1].role = "system"
    THEN [h EXCEPT ![1].content = p]
    ELSE <<Turn("system", p)>> \o h

\* variant: the system turn survives
clear_history_KeepSystem(h) == SelectSeq(h, LAMBDA t : t.role = "system")

\* DeepSeekSecuritySuite.clear_history, as a function of the history
clear_history(h) == << >>

\* messages_payload = self.conversation_history + [current_user_message] is a
\* new list of the same dicts: when set_system_prompt writes the content of
\* the system turn h[1] in place, a payload that holds this dict shows it too
Aliased(payload, shared, h) ==
    IF shared THEN [payload EXCEPT ![1] = h[1]] ELSE payload

\* if system_prompt: self.set_system_prompt(system_prompt)
ApplyPrompt(h, sp) == IF sp # NoArg THEN set_system_prompt(h, sp) ELSE h

\* variant: the generator appends to the history it copied when it began
CommitTarget_Snapshot(h, payload) == SubSeq(payload, 1, Len(payload) - 1)

\* self.conversation_history.append(...) in the generator: the list the
\* attribute names when the append is made
CommitTarget(h, payload) == h

\* variant: only the assistant turn is appended
AppendExchange_NoUser(h, m, a) == Append(h, Turn("assistant", a))

\* variant: the user turn is appended twice
AppendExchange_UserTwice(h, m, a) ==
    Append(Append(Append(h, Turn("user", m)), Turn("user", m)), Turn("assistant", a))

\* the two appends of a successful exchange
AppendExchange(h, m, a) == Append(Append(h, Turn("user", m)), Turn("assistant", a))

\* ======================================================================
\* the command runner: check_tool_available, get_available_tools,
\* extract_tool_from_command, filter_commands_by_availability and
\* run_generated_commands.  A text is the sequence of its characters.
\* ======================================================================
Whitespace == { " ", "\t", "\n" }

\* str.strip()
RECURSIVE LStrip(_)
LStrip(s) == IF s # << >> /\ Head(s) \in Whitespace THEN LStrip(Tail(s)) ELSE s
RECURSIVE RStrip(_)
RStrip(s) ==
    IF s # << >> /\ s[Len(s)] \in Whitespace THEN RStrip(SubSeq(s, 1, Len(s) - 1)) ELSE s
strip(s) == RStrip(LStrip(s))

\* the length of the longest prefix of s without whitespace
RECURSIVE WordLen(_)
WordLen(s) == IF s = << >> \/ Head(s) \in Whitespace THEN 0 ELSE 1 + WordLen(Tail(s))

\* str.split(): the maximal runs of characters that are not whitespace
RECURSIVE split(_)
split(s) ==
    LET t == LStrip(s)
    IN  IF t = << >> THEN << >>
        ELSE <<SubSeq(t, 1, WordLen(t))>> \o split(SubSeq(t, WordLen(t) + 1, Len(t)))

\* the length of the longest prefix of s without the character sep
RECURSIVE PrefixLen(_, _)
PrefixLen(s, sep) == IF s = << >> \/ Head(s) = sep THEN 0 ELSE 1 + PrefixLen(Tail(s), sep)

\* str.split(sep) for a one-character separator
RECURSIVE split_on(_, _)
split_on(s, sep) ==
    LET n == PrefixLen(s, sep)
    IN  IF n = Len(s) THEN <<s>>
        ELSE <<SubSeq(s, 1, n)>> \o split_on(SubSeq(s, n + 2, Len(s)), sep)

\* str.startswith(p), and "p in s"
startswith(s, p) == Len(p) <= Len(s) /\ SubSeq(s, 1, Len(p)) = p
Contains(s, p) == \E i \in 0..(Len(s) - Len(p)) : SubSeq(s, i + 1, i + Len(p)) = p

\* str.replace(old, new): every occurrence, left to right, without overlap
RECURSIVE replace(_, _, _)
replace(s, old, new) ==
    IF s = << >> THEN << >>
    ELSE IF startswith(s, old)
         THEN new \o replace(SubSeq(s, Len(old) + 1, Len(s)), old, new)
         ELSE <<Head(s)>> \o replace(Tail(s), old, new)

\* "\n".join(lines)
RECURSIVE JoinLines(_)
JoinLines(lines) ==
    IF lines = << >> THEN << >>
    ELSE IF Len(lines) = 1 THEN lines[1]
    ELSE lines[1] \o <<"\n">> \o JoinLines(Tail(lines))

Slash == <<"/">>
Hash == <<"#">>
DotSh == <<".", "s", "h">>
DotPy == <<".", "p", "y">>

\* the catalog probed by get_available_tools
common_tools ==
    { <<"n", "m", "a", "p">>,
      <<"s", "u", "b", "f", "i", "n", "d", "e", "r">>,
      <<"h", "t", "t", "p", "x">>,
      <<"n", "u", "c", "l", "e", "i">>,
      <<"f", "f", "u", "f">>,
      <<"g", "o", "b", "u", "s", "t", "e", "r">>,
      <<"a", "m", "a", "s", "s">>,
      <<"w", "a", "y", "b", "a", "c", "k", "u", "r", "l", "s">>,
      <<"s", "q", "l", "m", "a", "p">>,
      <<"w", "h", "a", "t", "w", "e", "b">>,
      <<"n", "i", "k", "t", "o">>,
      <<"d", "i", "r", "b">>,
      <<"w", "p", "s", "c", "a", "n">>,
      <<"a", "r", "j", "u", "n">>,
      <<"x", "s", "s", "t", "r", "i", "k", "e">>,
      <<"c", "o", "m", "m", "i", "x">>,
      <<"w", "f", "u", "z", "z">>,
      <<"c", "u", "r", "l">>,
      <<"t", "e", "s", "t", "s", "s", "l", ".", "s", "h">>,
      <<"s", "s", "l", "s", "c", "a", "n">> }

\* extract_tool_from_command
extract_tool_from_command(command) ==
    LET parts == split(strip(command))
    IN  IF parts = << >> THEN << >>
        ELSE LET tool == IF Contains(parts[1], Slash)
                         THEN LET segs == split_on(parts[1], "/") IN segs[Len(segs)]
                         ELSE parts[1]
             IN  replace(replace(tool, DotSh, << >>), DotPy, << >>)

\* the substrings the timeout rules look for
Pat_nmap_p == <<"n", "m", "a", "p", " ", "-", "p", "-">>
Pat_script_vuln == <<"-", "-", "s", "c", "r", "i", "p", "t", " ", "v", "u", "l", "n">>
Pat_waybackurls == <<"w", "a", "y", "b", "a", "c", "k", "u", "r", "l", "s">>
Pat_gau == <<"g", "a", "u", " ">>
Pat_nuclei == <<"n", "u", "c", "l", "e", "i">>
Pat_amass == <<"a", "m", "a", "s", "s">>
Pat_nmap == <<"n", "m", "a", "p">>
Pat_ffuf == <<"f", "f", "u", "f">>
Pat_gobuster_dir == <<"g", "o", "b", "u", "s", "t", "e", "r", " ", "d", "i", "r">>

\* variant: the generic nmap rule is tested before the full-scan rule
command_timeout_NmapFirst(cmd, default_timeout) ==
    IF Contains(cmd, Pat_nmap) THEN 120
    ELSE IF Contains(cmd, Pat_nmap_p) \/ Contains(cmd, Pat_script_vuln) THEN 300
    ELSE IF Contains(cmd, Pat_waybackurls) \/ Contains(cmd, Pat_gau) THEN 240
    ELSE IF Contains(cmd, Pat_nuclei) THEN 180
    ELSE IF Contains(cmd, Pat_amass) THEN 240
    ELSE IF Contains(cmd, Pat_ffuf) \/ Contains(cmd, Pat_gobuster_dir) THEN 180
    ELSE default_timeout

\* "Determine timeout based on command": the if/elif chain
command_timeout(cmd, default_timeout) ==
    IF Contains(cmd, Pat_nmap_p) \/ Contains(cmd, Pat_script_vuln) THEN 300
    ELSE IF Contains(cmd, Pat_waybackurls) \/ Contains(cmd, Pat_gau) THEN 240
    ELSE IF Contains(cmd, Pat_nuclei) THEN 180
    ELSE IF Contains(cmd, Pat_amass) THEN 240
    ELSE IF Contains(cmd, Pat_nmap) THEN 120
    ELSE IF Contains(cmd, Pat_ffuf) \/ Contains(cmd, Pat_gobuster_dir) THEN 180
    ELSE default_timeout

\* the lines of a block that filter_commands_by_availability looks at:
\* stripped, not empty, not starting with '#'
FilterLines(commands) ==
    SelectSeq([i \in 1..Len(split_on(commands, "\n")) |-> strip(split_on(commands, "\n")[i])],
              LAMBDA cmd : cmd # << >> /\ ~startswith(cmd, Hash))

\* variant: comment lines are classified like commands
filter_commands_by_availability_KeepComments(commands, available_tools) ==
    LET cmds == SelectSeq([i \in 1..Len(split_on(commands, "\n")) |->
                               strip(split_on(commands, "\n")[i])],
                          LAMBDA cmd : cmd # << >>)
    IN  [available |-> SelectSeq(cmds, LAMBDA cmd :
                           extract_tool_from_command(cmd) \in available_tools),
         unavailable |-> SelectSeq(cmds, LAMBDA cmd :
                           extract_tool_from_command(cmd) \notin available_tools)]

\* filter_commands_by_availability: (available_commands, unavailable_commands)
filter_commands_by_availability(commands, available_tools) ==
    [available |-> SelectSeq(FilterLines(commands), LAMBDA cmd :
                       extract_tool_from_command(cmd) \in available_tools),
     unavailable |-> SelectSeq(FilterLines(commands), LAMBDA cmd :
                       extract_tool_from_command(cmd) \notin available_tools)]

\* commands = [cmd.strip() for cmd in command_string.split('\n')
\*             if cmd.strip() and not cmd.startswith('#')]
ParseCommands(command_string) ==
    LET lines == SelectSeq(split_on(command_string, "\n"),
                           LAMBDA cmd : strip(cmd) # << >> /\ ~startswith(cmd, Hash))
    IN  [i \in 1..Len(lines) |-> strip(lines[i])]

\* variant: only a pipe sends a command to the shell
uses_shell_PipeOnly(cmd) == \E i \in 1..Len(cmd) : cmd[i] = "|"

\* variant: without the fallback
proceeding_NoFallback(available_cmds, commands) == available_cmds

\* commands = available_cmds if available_cmds else commands
proceeding(available_cmds, commands) ==
    IF available_cmds # << >> THEN available_cmds ELSE commands

\* variant: anything but 'n' is taken as a yes
confirmed_UnlessNo(confirm) == confirm # "n"

\* if confirm != 'y': "Command skipped."
confirmed(confirm) == confirm = "y"

\* '|' in cmd or '>' in cmd or '<' in cmd
uses_shell(cmd) == \E i \in 1..Len(cmd) : cmd[i] \in { "|", ">", "<" }

\* the quote that is open after the characters of cmd ("" when none is): a
\* quote character opens a quotation that the same character closes
RECURSIVE OpenQuote(_, _)
OpenQuote(cmd, q) ==
    IF cmd = << >> THEN q
    ELSE OpenQuote(Tail(cmd),
                   IF q = "" THEN (IF Head(cmd) \in { "\"", "'" } THEN Head(cmd) ELSE "")
                   ELSE IF Head(cmd) = q THEN "" ELSE q)

\* shlex.split(cmd) raises ValueError("No closing quotation")
shlex_fails(cmd) == OpenQuote(cmd, "") # ""

\* variant: the clause "except Exception" is missing
Caught_NoGeneric(outcome) == outcome \in { "ok", "FileNotFoundError", "TimeoutExpired" }

\* the try statement of lines 487-514 ends normally or in one of its clauses:
\* except FileNotFoundError, except subprocess.TimeoutExpired, except Exception
Caught(outcome) == outcome \in { "ok", "FileNotFoundError", "TimeoutExpired", "Exception" }

\* how subprocess.run, or shlex.split before it, can end for a command
RunOutcomesOf(cmd) ==
    IF ~uses_shell(cmd) /\ shlex_fails(cmd) THEN { "Exception" }
    ELSE { "ok", "FileNotFoundError", "TimeoutExpired", "Exception" }

\* check_tool_available: "which tool_name" succeeds; path is what is installed
check_tool_available(tool_name, path) == tool_name \in path

\* get_available_tools
get_available_tools(path) == { tool \in common_tools : check_tool_available(tool, path) }

\* ------------------------------------------------------------- the inputs
\* all texts of at most n characters over the alphabet
Texts(alphabet, n) == UNION { [1..k -> alphabet] : k \in 0..n }

ExtractAlphabet == { " ", "/", ".", "s", "h", "x" }

\* the texts the inputs are built from
Sample ==
    [ Cmd_testssl_host |->
          <<"~", "/", "t", "o", "o", "l", "s", "/", "t", "e", "s", "t", "s", "s", "l", ".", "s", "h", " ", "h", "o", "s", "t", ".", "c", "o", "m">>,
      Cmd_testssl_url |->
          <<"~", "/", "t", "o", "o", "l", "s", "/", "t", "e", "s", "t", "s", "s", "l", ".", "s", "h", " ", "h", "t", "t", "p", "s", ":", "/", "/", "e", "x", "a", "m", "p", "l", "e", ".", "c", "o", "m">>,
      Cmd_nmap_sV |->
          <<"n", "m", "a", "p", " ", "-", "s", "V", " ", "x">>,
      Cmd_python_script |->
          <<"p", "y", "t", "h", "o", "n", " ", "s", "c", "r", "i", "p", "t", ".", "p", "y">>,
      Cmd_backup_old |->
          <<".", "/", "b", "a", "c", "k", "u", "p", ".", "s", "h", ".", "o", "l", "d", " ", "-", "v">>,
      Dir_tools |->
          <<"~", "/", "t", "o", "o", "l", "s", "/">>,
      Arg_x |->
          <<" ", "x">>,
      Cmd_nmap_full_vuln |->
          <<"n", "m", "a", "p", " ", "-", "p", "-", " ", "-", "-", "s", "c", "r", "i", "p", "t", " ", "v", "u", "l", "n", " ", "x">>,
      Cmd_echo_hi |->
          <<"e", "c", "h", "o", " ", "h", "i">>,
      Line_nmap |->
          <<"n", "m", "a", "p", " ", "-", "s", "V", " ", "x">>,
      Line_subfinder |->
          <<"s", "u", "b", "f", "i", "n", "d", "e", "r", " ", "-", "d", " ", "x">>,
      Line_httpx |->
          <<" ", " ", "h", "t", "t", "p", "x", " ", "-", "l", " ", "u">>,
      Line_ghost |->
          <<"g", "h", "o", "s", "t", "-", "t", "o", "o", "l", " ", "x">>,
      Line_comment |->
          <<"#", " ", "c">>,
      Line_indented_comment |->
          <<" ", " ", "#", " ", "c">>,
      Line_empty |->
          << >>,
      Tool_nmap |->
          <<"n", "m", "a", "p">>,
      Tool_httpx |->
          <<"h", "t", "t", "p", "x">>,
      Tool_subfinder |->
          <<"s", "u", "b", "f", "i", "n", "d", "e", "r">>,
      Line_pipe |->
          <<"c", "a", "t", " ", "u", " ", "|", " ", "h", "t", "t", "p", "x">>,
      Line_redirect |->
          <<"e", "c", "h", "o", " ", "h", "i", " ", ">", " ", "o">>,
      Line_input |->
          <<"s", "o", "r", "t", " ", "<", " ", "u">>,
      Line_open_quote |->
          <<"e", "c", "h", "o", " ", "\"", "h", "i">> ]

\* commands that invoke a tool of the catalog, plainly or through a path
CatalogCommands(t) == { t, t \o Sample.Arg_x, Sample.Dir_tools \o t \o Sample.Arg_x }

ExtractInputs ==
    Texts(ExtractAlphabet, MaxCommandLen)
      \cup { Sample.Cmd_testssl_host, Sample.Cmd_testssl_url, Sample.Cmd_nmap_sV, Sample.Cmd_python_script,
             Sample.Cmd_backup_old }
      \cup UNION { CatalogCommands(t) : t \in common_tools }

\* the pieces the commands of the timeout rules are put together from
Pieces ==
    { <<"n", "m", "a", "p">>,
      <<" ", "-", "p", "-">>,
      <<" ", "-", "-", "s", "c", "r", "i", "p", "t", " ", "v", "u", "l", "n">>,
      <<" ", "-", "s", "V">>,
      <<"w", "a", "y", "b", "a", "c", "k", "u", "r", "l", "s">>,
      <<"g", "a", "u", " ">>,
      <<"n", "u", "c", "l", "e", "i">>,
      <<"a", "m", "a", "s", "s">>,
      <<"f", "f", "u", "f">>,
      <<"g", "o", "b", "u", "s", "t", "e", "r">>,
      <<" ", "d", "i", "r">>,
      <<"e", "c", "h", "o", " ", "h", "i">>,
      <<" ", "x">> }

RECURSIVE Concat(_)
Concat(parts) == IF parts = << >> THEN << >> ELSE Head(parts) \o Concat(Tail(parts))

TimeoutCommands ==
    { Concat(ps) : ps \in UNION { [1..k -> Pieces] : k \in 1..MaxPieces } }
      \cup { Sample.Cmd_nmap_full_vuln, Sample.Cmd_nmap_sV, Sample.Cmd_echo_hi }
DefaultTimeouts == { 120, 600 }

BlockLines ==
    { Sample.Line_nmap, Sample.Line_subfinder, Sample.Line_httpx, Sample.Line_ghost, Sample.Line_comment,
      Sample.Line_indented_comment, Sample.Line_empty }
ExampleBlock == << Sample.Line_nmap, Sample.Line_subfinder, Sample.Line_httpx, Sample.Line_ghost >>
\* commands with a pipe, a redirect, an unbalanced quote, among plain ones
ShellBlock == << Sample.Line_nmap, Sample.Line_pipe, Sample.Line_redirect, Sample.Line_input >>
QuoteBlock == << Sample.Line_open_quote, Sample.Line_nmap, Sample.Line_pipe >>
Blocks ==
    UNION { [1..k -> BlockLines] : k \in 0..MaxLines }
        \cup { ExampleBlock, ShellBlock, QuoteBlock }

\* what "which" finds on the machine
InstalledSets == { {}, { Sample.Tool_nmap, Sample.Tool_httpx }, { Sample.Tool_subfinder } }

Job(op, text, check, path, default) ==
    [op |-> op, command_string |-> text, check_availability |-> check,
     installed |-> path, default_timeout |-> default]
NoJob == Job("none", << >>, FALSE, {}, 0)

Jobs ==
    { Job("extract", c, FALSE, {}, 0) : c \in ExtractInputs }
      \cup { Job("run", c, FALSE, {}, dt) : c \in TimeoutCommands, dt \in DefaultTimeouts }
      \cup { Job("run", JoinLines(b), ck, path, 120) :
                 b \in Blocks, ck \in BOOLEAN, path \in InstalledSets }

Choices == { "all", "one", "" }       \* the answer to "(all/one/N)", normalised
Confirms == { "y", "" }               \* the answer to "Run: cmd? [y/N]"
Mores == { "", "n" }                  \* the answer to "Run next command?"
RunOutcomes == { "ok", "FileNotFoundError", "TimeoutExpired", "Exception" }

Execution(cmd, t, sh) == [cmd |-> cmd, timeout |-> t, shell |-> sh]

VARIABLES
    max_retries,            \* self.max_retries
    max_fragments,          \* text fragments the server sends in one body
    ops,                    \* operations started so far
    conversation_history,   \* self.conversation_history
    last_prompt,            \* <<p>>: p was set last since the history was emptied
    cleared,                \* clear_history calls made so far
    c_pc,                   \* call_deepseek: "idle", "post", "sleep", "done"
    c_message,              \* its message argument
    c_prompt,               \* its system_prompt argument
    c_payload,              \* messages_payload
    c_attempt,              \* the loop variable attempt
    c_last_exception,       \* last_exception
    c_result,               \* what the call returned or raised
    c_requests,             \* requests.post calls made by the call
    c_sleeps,               \* the time.sleep arguments of the call, in order
    c_last,                 \* <<o>>: the answer to the latest request of the call
    c_failures,             \* its requests answered by a timeout, a connection
                            \*   failure, a 5xx or a 429
    c_hist0,                \* the history when the call was made
    s_pc,                   \* the generator: "none", "created", "post", "reading",
                            \*   "susp_frag", "susp_notice", "done"
    s_message,              \* its message argument
    s_prompt,               \* its system_prompt argument
    s_payload,              \* messages_payload
    s_attempt,              \* the loop variable attempt
    s_last_exception,       \* last_exception
    s_content,              \* full_response_content
    s_yield,                \* <<item>>: the item the consumer is handed at a yield
    s_result,               \* how the generator ended
    s_requests,             \* requests.post calls made by the generator
    s_sleeps,               \* its time.sleep arguments, in order
    s_last,                 \* <<o>>: the answer to its latest request
    s_emitted,              \* the fragments yielded in the current attempt
    s_partial,              \* a failed attempt had yielded text before the retry
    s_end,                  \* <<e>>: how the body of the latest response ended
    s_response,             \* the response: "none", "open", "closed"
    s_shared,               \* messages_payload[0] is the very dict that is
                            \*   conversation_history[0], a system turn
    s_sent,                 \* the messages of the generator's latest request
    job,                    \* what the command runner is given
    r_pc,                   \* run_generated_commands: "idle", "choice", "confirm",
                            \*   "exec", "next", "done", "cancelled", "raised"
    r_commands,             \* commands
    r_unavailable,          \* unavailable_cmds, the commands reported as skipped
    r_choice,               \* choice
    r_i,                    \* the position in commands of the command at hand
    r_executed,             \* the commands taken to lines 487-494, in order
    r_outcome,              \* how the latest subprocess.run ended
    r_tool,                 \* what extract_tool_from_command returned
    r_answer,               \* what the latest input() returned, normalised
    w_pc,                   \* per handler thread of the web server: "idle",
                            \*   "post", "sleep", "append", "done"
    w_route,                \* the view function the thread runs
    w_attempt,              \* the loop variable attempt of its call_deepseek
    w_reply,                \* <<a>>: the assistant_message of its call
    w_served                \* HTTP requests taken so far

callVars == <<c_pc, c_message, c_prompt, c_payload, c_attempt, c_last_exception,
              c_result, c_requests, c_sleeps, c_last, c_failures, c_hist0>>
\* what an operation of the caller leaves alone in a suspended generator
streamFrame == <<s_pc, s_message, s_prompt, s_attempt, s_last_exception,
                 s_content, s_yield, s_result, s_requests, s_sleeps, s_last,
                 s_emitted, s_partial, s_end, s_response, s_sent>>
streamVars == <<streamFrame, s_payload, s_shared>>
suiteVars == <<max_retries, max_fragments, ops, cleared, conversation_history,
               last_prompt, callVars, streamVars>>
toolVars == <<job, r_pc, r_commands, r_unavailable, r_choice, r_i, r_executed,
              r_outcome, r_tool, r_answer>>
webVars == <<w_pc, w_route, w_attempt, w_reply, w_served>>
vars == <<suiteVars, toolVars, webVars>>

NoResult == [kind |-> "none", error |-> "none", line |-> 0, value |-> << >>]
Returned(v) == [kind |-> "return", error |-> "none", line |-> 0, value |-> v]
Raised(r) == [kind |-> "raise", error |-> r.error, line |-> r.line, value |-> << >>]
Closed == [kind |-> "closed", error |-> "none", line |-> 0, value |-> << >>]

NoPrompt == << >>

\* the threads of the server that run view functions
Handlers == { 1, 2 }
NoRoute == "none"
Routes == { "index", "analyze" }

\* the message and the system prompt a view function gives to call_deepseek
RouteMessage(route) ==
    IF route = "index" THEN <<"Suggest security testing commands for">>
    ELSE <<"Analyze this bounty program">>
RoutePrompt(route) ==
    IF route = "index" THEN <<"You are a penetration testing expert">>
    ELSE <<"You are a security research assistant">>

\* no request is being handled
WebIdle ==
    /\ w_pc = [t \in Handlers |-> "idle"]
    /\ w_route = [t \in Handlers |-> NoRoute]
    /\ w_attempt = [t \in Handlers |-> 0]
    /\ w_reply = [t \in Handlers |-> << >>]
    /\ w_served = 0

\* the command runner has not been called
ToolsIdle ==
    /\ r_pc = "idle"
    /\ r_commands = << >>
    /\ r_unavailable = << >>
    /\ r_choice = ""
    /\ r_i = 0
    /\ r_executed = << >>
    /\ r_outcome = ""
    /\ r_tool = << >>
    /\ r_answer = ""

Init ==
    /\ job = NoJob
    /\ ToolsIdle
    /\ WebIdle
    /\ max_retries \in 0..MaxRetries
    /\ max_fragments = MaxFragments
    /\ ops = 0
    /\ conversation_history = << >>
    /\ last_prompt = NoPrompt
    /\ cleared = 0
    /\ c_pc = "idle"
    /\ c_message = << >>
    /\ c_prompt = NoArg
    /\ c_payload = << >>
    /\ c_attempt = 0
    /\ c_last_exception = NoException
    /\ c_result = NoResult
    /\ c_requests = 0
    /\ c_sleeps = << >>
    /\ c_last = << >>
    /\ c_failures = 0
    /\ c_hist0 = << >>
    /\ s_pc = "none"
    /\ s_message = << >>
    /\ s_prompt = NoArg
    /\ s_payload = << >>
    /\ s_attempt = 0
    /\ s_last_exception = NoException
    /\ s_content = << >>
    /\ s_yield = << >>
    /\ s_result = NoResult
    /\ s_requests = 0
    /\ s_sleeps = << >>
    /\ s_last = << >>
    /\ s_emitted = << >>
    /\ s_partial = FALSE
    /\ s_end = << >>
    /\ s_response = "none"
    /\ s_shared = FALSE
    /\ s_sent = << >>

\* histories earlier operations leave behind: none, a system prompt, one
\* exchange, a system prompt and one exchange
StartHistories ==
    LET sys == <<Turn("system", <<"p1">>)>>
        pair == <<Turn("user", <<"m1">>), Turn("assistant", <<"r">>)>>
    IN  { << >>, sys, pair, sys \o pair }

\* a client with a larger retry budget and one of these histories, on which
\* the caller makes one operation
InitRetry ==
    /\ job = NoJob
    /\ ToolsIdle
    /\ WebIdle
    /\ max_retries \in 0..MaxRetriesDeep
    /\ max_fragments = MaxFragmentsDeep
    /\ ops = MaxOps - 1
    /\ conversation_history \in StartHistories
    /\ last_prompt = IF conversation_history # << >>
                         /\ conversation_history[1].role = "system"
                     THEN <<conversation_history[1].content>>
                     ELSE NoPrompt
    /\ cleared = 0
    /\ c_pc = "idle"
    /\ c_message = << >>
    /\ c_prompt = NoArg
    /\ c_payload = << >>
    /\ c_attempt = 0
    /\ c_last_exception = NoException
    /\ c_result = NoResult
    /\ c_requests = 0
    /\ c_sleeps = << >>
    /\ c_last = << >>
    /\ c_failures = 0
    /\ c_hist0 = << >>
    /\ s_pc = "none"
    /\ s_message = << >>
    /\ s_prompt = NoArg
    /\ s_payload = << >>
    /\ s_attempt = 0
    /\ s_last_exception = NoException
    /\ s_content = << >>
    /\ s_yield = << >>
    /\ s_result = NoResult
    /\ s_requests = 0
    /\ s_sleeps = << >>
    /\ s_last = << >>
    /\ s_emitted = << >>
    /\ s_partial = FALSE
    /\ s_end = << >>
    /\ s_response = "none"
    /\ s_shared = FALSE
    /\ s_sent = << >>

\* the caller is between operations
CallerFree ==
    /\ c_pc = "idle"
    /\ s_pc \in {"none", "created", "susp_frag", "susp_notice"}

\* the caller starts one more operation
CanStart == ops < MaxOps /\ ops' = ops + 1

\* suite.set_system_prompt(p)
SetSystemPrompt(p) ==
    /\ CallerFree
    /\ CanStart
    /\ conversation_history' = set_system_prompt(conversation_history, p)
    /\ s_payload' = Aliased(s_payload, s_shared, conversation_history')
    /\ last_prompt' = <<p>>
    /\ UNCHANGED <<toolVars, webVars, max_retries, max_fragments, cleared, callVars, streamFrame,
                   s_shared>>

\* suite.clear_history()
ClearHistory ==
    /\ CallerFree
    /\ CanStart
    /\ conversation_history' = clear_history(conversation_history)
    /\ last_prompt' = NoPrompt
    /\ cleared' = cleared + 1
    /\ s_shared' = FALSE
    /\ UNCHANGED <<toolVars, webVars, max_retries, max_fragments, callVars, streamFrame,
                   s_payload>>

\* the call ends: its frame is gone, what it returned or raised remains
CallDone(r) ==
    /\ c_pc' = "done"
    /\ c_result' = r
    /\ c_attempt' = 0
    /\ c_last_exception' = NoException

\* the top of "for attempt in range(self.max_retries)" for attempt a, and the
\* error raised after the loop when there is no such attempt
CallLoop(a, last) ==
    IF InRange(a, max_retries)
    THEN /\ c_pc' = "post"
         /\ c_attempt' = a
         /\ c_last_exception' = last
         /\ c_result' = NoResult
    ELSE CallDone(Raised(CallExhausted(last)))

\* suite.call_deepseek(m, sp) up to the first request, or up to the error
\* raised after the loop when range(max_retries) is empty
CallBegin(m, sp) ==
    /\ CallerFree
    /\ CanStart
    /\ LET h == ApplyPrompt(conversation_history, sp)
       IN  /\ conversation_history' = h
           /\ c_payload' = Append(h, Turn("user", m))
           /\ s_payload' = Aliased(s_payload, s_shared, h)
    /\ last_prompt' = IF sp # NoArg THEN <<sp>> ELSE last_prompt
    /\ c_message' = m
    /\ c_prompt' = sp
    /\ c_requests' = 0
    /\ c_sleeps' = << >>
    /\ c_last' = << >>
    /\ c_failures' = 0
    /\ c_hist0' = conversation_history
    /\ CallLoop(0, NoException)
    /\ UNCHANGED <<toolVars, webVars, max_retries, max_fragments, cleared, streamFrame, s_shared>>

\* one attempt: requests.post answers with o; the try block and its handlers
CallPost(o) ==
    /\ c_pc = "post"
    /\ c_requests' = c_requests + 1
    /\ c_last' = <<o>>
    /\ c_failures' = IF Transient(o) THEN c_failures + 1 ELSE c_failures
    /\ LET exc == AttemptException(o)
           h == CallExcept(exc)
       IN  IF exc = NoException
           THEN /\ conversation_history' =
                       AppendExchange(conversation_history, c_message, AssistantMessage(o))
                /\ CallDone(Returned(<<AssistantMessage(o)>>))
           ELSE /\ UNCHANGED conversation_history
                /\ IF ~h.retry THEN CallDone(Raised(h))
                   ELSE IF BackoffDue(c_attempt, max_retries)
                   THEN /\ c_pc' = "sleep"
                        /\ c_last_exception' = exc
                        /\ UNCHANGED <<c_result, c_attempt>>
                   ELSE CallLoop(c_attempt + 1, exc)
    /\ UNCHANGED <<toolVars, webVars, max_retries, max_fragments, ops, cleared, last_prompt, c_message, c_prompt, c_payload,
                   c_sleeps, c_hist0, streamVars>>

\* time.sleep(wait_time), then the next iteration of the loop
CallSleep ==
    /\ c_pc = "sleep"
    /\ c_sleeps' = Append(c_sleeps, wait_time(c_attempt))
    /\ CallLoop(c_attempt + 1, c_last_exception)
    /\ UNCHANGED <<toolVars, webVars, max_retries, max_fragments, ops, cleared, conversation_history, last_prompt, c_message,
                   c_prompt, c_payload, c_requests, c_last, c_failures,
                   c_hist0, streamVars>>

\* the caller takes the result (or the exception) of the finished call
CallReturn ==
    /\ c_pc = "done"
    /\ c_pc' = "idle"
    /\ c_result' = NoResult
    /\ c_message' = << >>
    /\ c_prompt' = NoArg
    /\ c_payload' = << >>
    /\ c_attempt' = 0
    /\ c_last_exception' = NoException
    /\ c_requests' = 0
    /\ c_sleeps' = << >>
    /\ c_last' = << >>
    /\ c_failures' = 0
    /\ c_hist0' = << >>
    /\ UNCHANGED <<toolVars, webVars, max_retries, max_fragments, ops, cleared, conversation_history, last_prompt, streamVars>>

\* gen = suite.stream_call_deepseek(m, sp): nothing of the body runs yet
StreamCreate(m, sp) ==
    /\ CallerFree
    /\ CanStart
    /\ s_pc = "none"
    /\ s_pc' = "created"
    /\ s_message' = m
    /\ s_prompt' = sp
    /\ UNCHANGED <<toolVars, webVars, max_retries, max_fragments, cleared, conversation_history, last_prompt,
                   callVars, s_payload, s_shared, s_sent, s_attempt, s_last_exception, s_content, s_yield,
                   s_result, s_requests, s_sleeps, s_last, s_emitted, s_partial,
                   s_end, s_response>>

\* the generator ends: its frame is gone, how it ended remains
StreamDone(r) ==
    /\ s_pc' = "done"
    /\ s_result' = r
    /\ s_attempt' = 0
    /\ s_last_exception' = NoException
    /\ s_content' = << >>
    /\ s_yield' = << >>
    /\ s_emitted' = << >>

\* the top of "for attempt in range(self.max_retries)" for attempt a, entered
\* with last_exception last and full_response_content content, and the error
\* raised after the loop when there is no such attempt
StreamLoop(a, last, content) ==
    IF InRange(a, max_retries)
    THEN /\ s_pc' = "post"
         /\ s_attempt' = a
         /\ s_last_exception' = last
         /\ s_content' = content
         /\ s_yield' = << >>
         /\ s_result' = NoResult
         /\ s_emitted' = << >>
    ELSE StreamDone(Raised(StreamExhausted(last)))

\* the first next(gen): the body up to the first request
StreamStart ==
    /\ CallerFree
    /\ s_pc = "created"
    /\ LET h == ApplyPrompt(conversation_history, s_prompt)
       IN  /\ conversation_history' = h
           /\ s_payload' = Append(h, Turn("user", s_message))
           /\ s_shared' = (h # << >> /\ h[1].role = "system")
    /\ last_prompt' = IF s_prompt # NoArg THEN <<s_prompt>> ELSE last_prompt
    /\ StreamLoop(0, NoException, << >>)
    /\ UNCHANGED <<toolVars, webVars, max_retries, max_fragments, ops, cleared, callVars, s_message, s_prompt,
                   s_requests, s_sleeps, s_last, s_partial, s_end, s_response, s_sent>>

\* an attempt ended with the exception exc: the handlers, and for a retryable
\* one either the notice yielded before the backoff or the end of the loop
StreamFail(exc) ==
    LET h == StreamExcept(exc)
    IN  IF ~h.retry THEN StreamDone(Raised(h))
        ELSE IF BackoffDue(s_attempt, max_retries)
        THEN /\ s_pc' = "susp_notice"
             /\ s_yield' = <<NoticeItem(s_attempt + 1, wait_time(s_attempt))>>
             /\ s_last_exception' = exc
             /\ UNCHANGED <<s_attempt, s_content, s_result, s_emitted>>
        ELSE StreamLoop(s_attempt + 1, exc, s_content)

\* the code after the with block: the exchange is appended if there is text
StreamCommit ==
    /\ LET assistant_message == Join(s_content)
       IN  conversation_history' =
               IF assistant_message # << >>
               THEN AppendExchange(CommitTarget(conversation_history, s_payload),
                                   s_message, assistant_message)
               ELSE conversation_history
    /\ StreamDone(Returned(<< >>))

\* requests.post(..., stream=True) answers with o; response.raise_for_status()
StreamPost(o) ==
    /\ s_pc = "post"
    /\ o.body = NoBody
    /\ s_requests' = s_requests + 1
    /\ s_sent' = s_payload
    /\ s_last' = <<o>>
    /\ IF o.kind = "response" /\ ~raise_for_status(o.status)
       THEN /\ s_pc' = "reading"
            /\ s_response' = "open"
            /\ UNCHANGED <<s_attempt, s_last_exception, s_content, s_yield, s_result,
                           s_emitted>>
       ELSE /\ StreamFail(IF o.kind = "response" THEN HTTPError(o.status) ELSE Exc(o.kind))
            /\ s_response' = IF o.kind = "response" THEN WithExit("open") ELSE "none"
    /\ s_end' = << >>
    /\ UNCHANGED <<toolVars, webVars, max_retries, max_fragments, ops, cleared, conversation_history, last_prompt,
                   callVars, s_message, s_prompt, s_payload, s_shared, s_sleeps, s_partial>>

\* iter_lines delivers the line f
StreamFrame(f) ==
    /\ s_pc = "reading"
    /\ FrameEffect(f) = "yield" =>
           /\ Len(s_emitted) < max_fragments
           /\ Len(s_emitted) < Len(FragmentScript)
           /\ f.content[1] = FragmentScript[Len(s_emitted) + 1]
    /\ LET e == FrameEffect(f)
       IN  CASE e = "skip" ->
                  UNCHANGED <<s_pc, s_attempt, s_last_exception, s_content, s_yield,
                              s_result, conversation_history, s_emitted, s_end,
                              s_response>>
             [] e = "yield" ->
                  /\ s_content' = Append(s_content, f.content[1])
                  /\ s_emitted' = Append(s_emitted, f.content[1])
                  /\ s_yield' = <<FragmentItem(f.content[1])>>
                  /\ s_pc' = "susp_frag"
                  /\ UNCHANGED <<s_attempt, s_last_exception, s_result,
                                 conversation_history, s_end, s_response>>
             [] e = "break" ->
                  /\ StreamCommit
                  /\ s_end' = <<e>>
                  /\ s_response' = WithExit(s_response)
             [] OTHER ->
                  /\ StreamFail(Exc(e))
                  /\ s_end' = <<e>>
                  /\ s_response' = WithExit(s_response)
                  /\ UNCHANGED conversation_history
    /\ UNCHANGED <<toolVars, webVars, max_retries, max_fragments, ops, cleared, last_prompt, callVars, s_message,
                   s_prompt, s_payload, s_shared, s_sent, s_requests, s_sleeps, s_last, s_partial>>

\* the body ends: cleanly without the sentinel, or with a transport error
StreamBodyEnd(e) ==
    /\ s_pc = "reading"
    /\ IF e = "eof" THEN StreamCommit
       ELSE StreamFail(Exc(e)) /\ UNCHANGED conversation_history
    /\ s_end' = <<e>>
    /\ s_response' = WithExit(s_response)
    /\ UNCHANGED <<toolVars, webVars, max_retries, max_fragments, ops, cleared, last_prompt, callVars, s_message,
                   s_prompt, s_payload, s_shared, s_sent, s_requests, s_sleeps, s_last, s_partial>>

\* next(gen) at "yield content": back into the iter_lines loop
StreamResumeFragment ==
    /\ CallerFree
    /\ s_pc = "susp_frag"
    /\ s_pc' = "reading"
    /\ s_yield' = << >>
    /\ UNCHANGED <<toolVars, webVars, max_retries, max_fragments, ops, cleared, conversation_history, last_prompt,
                   callVars, s_message, s_prompt, s_payload, s_shared, s_sent, s_attempt, s_last_exception,
                   s_content, s_result, s_requests, s_sleeps, s_last, s_emitted,
                   s_partial, s_end, s_response>>

\* next(gen) at the notice: time.sleep, the reset, the next attempt
StreamResumeNotice ==
    /\ CallerFree
    /\ s_pc = "susp_notice"
    /\ s_sleeps' = Append(s_sleeps, wait_time(s_attempt))
    /\ StreamLoop(s_attempt + 1, s_last_exception, ResetContent(s_content))
    /\ s_partial' = (s_partial \/ s_content # << >>)
    /\ UNCHANGED <<toolVars, webVars, max_retries, max_fragments, ops, cleared, conversation_history, last_prompt,
                   callVars, s_message, s_prompt, s_payload, s_shared, s_sent, s_requests, s_last, s_end,
                   s_response>>

\* gen.close(), or the generator is dropped: GeneratorExit at the yield
StreamClose ==
    /\ CallerFree
    /\ s_pc \in {"created", "susp_frag", "susp_notice"}
    /\ StreamDone(Closed)
    /\ s_response' = IF s_pc = "susp_frag" THEN WithExit(s_response) ELSE s_response
    /\ UNCHANGED <<toolVars, webVars, max_retries, max_fragments, ops, cleared, conversation_history, last_prompt,
                   callVars, s_message, s_prompt, s_payload, s_shared, s_sent, s_requests, s_sleeps, s_last,
                   s_partial, s_end>>

\* the consumer has seen the end of the generator
StreamFinish ==
    /\ s_pc = "done"
    /\ s_pc' = "none"
    /\ s_message' = << >>
    /\ s_prompt' = NoArg
    /\ s_payload' = << >>
    /\ s_attempt' = 0
    /\ s_last_exception' = NoException
    /\ s_content' = << >>
    /\ s_yield' = << >>
    /\ s_result' = NoResult
    /\ s_requests' = 0
    /\ s_sleeps' = << >>
    /\ s_last' = << >>
    /\ s_emitted' = << >>
    /\ s_partial' = FALSE
    /\ s_end' = << >>
    /\ s_response' = "none"
    /\ s_shared' = FALSE
    /\ s_sent' = << >>
    /\ UNCHANGED <<toolVars, webVars, max_retries, max_fragments, ops, cleared, conversation_history, last_prompt,
                   callVars>>

Next ==
    \/ \E p \in Prompts : SetSystemPrompt(p)
    \/ ClearHistory
    \/ \E m \in CallMessages, sp \in PromptArgs : CallBegin(m, sp)
    \/ \E o \in Outcomes : CallPost(o)
    \/ CallSleep
    \/ CallReturn
    \/ \E m \in StreamMessages, sp \in PromptArgs : StreamCreate(m, sp)
    \/ StreamStart
    \/ \E o \in Outcomes : StreamPost(o)
    \/ \E f \in BodyFrames \cup EndFrames : StreamFrame(f)
    \/ \E e \in BodyEnds : StreamBodyEnd(e)
    \/ StreamResumeFragment
    \/ StreamResumeNotice
    \/ StreamClose
    \/ StreamFinish

Spec == Init /\ [][Next]_vars

\* one operation on a client with up to MaxRetriesDeep attempts
SpecRetry == InitRetry /\ [][Next]_vars

\* ------------------------------------------------ run_generated_commands
\* the command runner is given a job; the client is not used
InitTools ==
    /\ job \in Jobs
    /\ ToolsIdle
    /\ WebIdle
    /\ max_retries = 3
    /\ max_fragments = MaxFragments
    /\ ops = 0
    /\ cleared = 0
    /\ conversation_history = << >>
    /\ last_prompt = NoPrompt
    /\ c_pc = "idle"
    /\ c_message = << >>
    /\ c_prompt = NoArg
    /\ c_payload = << >>
    /\ c_attempt = 0
    /\ c_last_exception = NoException
    /\ c_result = NoResult
    /\ c_requests = 0
    /\ c_sleeps = << >>
    /\ c_last = << >>
    /\ c_failures = 0
    /\ c_hist0 = << >>
    /\ s_pc = "none"
    /\ s_message = << >>
    /\ s_prompt = NoArg
    /\ s_payload = << >>
    /\ s_attempt = 0
    /\ s_last_exception = NoException
    /\ s_content = << >>
    /\ s_yield = << >>
    /\ s_result = NoResult
    /\ s_requests = 0
    /\ s_sleeps = << >>
    /\ s_last = << >>
    /\ s_emitted = << >>
    /\ s_partial = FALSE
    /\ s_end = << >>
    /\ s_response = "none"
    /\ s_shared = FALSE
    /\ s_sent = << >>

\* tool = extract_tool_from_command(command)
ExtractTool ==
    /\ r_pc = "idle"
    /\ job.op = "extract"
    /\ r_tool' = extract_tool_from_command(job.command_string)
    /\ r_pc' = "done"
    /\ UNCHANGED <<suiteVars, webVars, job, r_commands, r_unavailable, r_choice, r_i, r_executed,
                   r_outcome, r_answer>>

\* run_generated_commands(command_string, check_availability, default_timeout)
\* up to the prompt "Do you want to run these commands?"
RunBegin ==
    /\ r_pc = "idle"
    /\ job.op = "run"
    /\ LET commands == ParseCommands(job.command_string)
           available_tools == get_available_tools(job.installed)
           f == filter_commands_by_availability(job.command_string, available_tools)
       IN  IF strip(job.command_string) = << >> \/ commands = << >>
           THEN /\ r_pc' = "done"
                /\ UNCHANGED <<r_commands, r_unavailable>>
           ELSE /\ r_pc' = "choice"
                /\ IF job.check_availability
                   THEN /\ r_unavailable' = f.unavailable
                        /\ r_commands' = proceeding(f.available, commands)
                   ELSE /\ r_unavailable' = << >>
                        /\ r_commands' = commands
    /\ UNCHANGED <<suiteVars, webVars, job, r_choice, r_i, r_executed, r_outcome, r_tool, r_answer>>

\* "for cmd in commands": on to the command at position i, or out of the loop
RunLoop(i, choice) ==
    /\ r_i' = i
    /\ r_pc' = IF i > Len(r_commands) THEN "done"
               ELSE IF choice = "one" THEN "confirm" ELSE "exec"

\* the answer to "Do you want to run these commands? (all/one/N)"
RunChoice(choice) ==
    /\ r_pc = "choice"
    /\ r_choice' = choice
    /\ r_answer' = choice
    /\ IF choice \notin {"all", "one"}
       THEN r_pc' = "done" /\ UNCHANGED r_i
       ELSE RunLoop(1, choice)
    /\ UNCHANGED <<suiteVars, webVars, job, r_commands, r_unavailable, r_executed, r_outcome,
                   r_tool>>

\* the answer to "Run: cmd? [y/N]"
RunConfirm(confirm) ==
    /\ r_pc = "confirm"
    /\ r_answer' = confirm
    /\ IF ~confirmed(confirm)
       THEN RunLoop(r_i + 1, r_choice)
       ELSE r_pc' = "exec" /\ UNCHANGED r_i
    /\ UNCHANGED <<suiteVars, webVars, job, r_commands, r_unavailable, r_choice, r_executed,
                   r_outcome, r_tool>>

\* the timeout is chosen, subprocess.run is called and ends with outcome
RunExecute(outcome) ==
    /\ r_pc = "exec"
    /\ outcome \in RunOutcomesOf(r_commands[r_i])
    /\ LET cmd == r_commands[r_i]
           timeout_ == command_timeout(cmd, job.default_timeout)
       IN  r_executed' = Append(r_executed, Execution(cmd, timeout_, uses_shell(cmd)))
    /\ r_outcome' = outcome
    /\ IF ~Caught(outcome)
       THEN r_pc' = "raised" /\ UNCHANGED r_i
       ELSE IF r_choice = "one"
            THEN r_pc' = "next" /\ UNCHANGED r_i
            ELSE RunLoop(r_i + 1, r_choice)
    /\ UNCHANGED <<suiteVars, webVars, job, r_commands, r_unavailable, r_choice, r_tool, r_answer>>

\* the answer to "Run next command? (y/N) [y]"
RunNext(more) ==
    /\ r_pc = "next"
    /\ r_answer' = more
    /\ IF more = "n"
       THEN r_pc' = "done" /\ UNCHANGED r_i
       ELSE RunLoop(r_i + 1, r_choice)
    /\ UNCHANGED <<suiteVars, webVars, job, r_commands, r_unavailable, r_choice, r_executed,
                   r_outcome, r_tool>>

\* KeyboardInterrupt while the runner waits for an answer or for a command
RunInterrupt ==
    /\ r_pc \in {"choice", "confirm", "exec", "next"}
    /\ r_pc' = "cancelled"
    /\ UNCHANGED <<suiteVars, webVars, job, r_commands, r_unavailable, r_choice, r_i, r_executed,
                   r_outcome, r_tool, r_answer>>

NextTools ==
    \/ ExtractTool
    \/ RunBegin
    \/ \E choice \in Choices : RunChoice(choice)
    \/ \E confirm \in Confirms : RunConfirm(confirm)
    \/ \E outcome \in RunOutcomes : RunExecute(outcome)
    \/ \E more \in Mores : RunNext(more)
    \/ RunInterrupt

\* the tool functions and the command runner on one job
SpecTools == InitTools /\ [][NextTools]_vars

\* ------------------------------------------------------------ web_server
\* suite = DeepSeekSecuritySuite(api_key=api_key): one client for the views
InitWeb ==
    /\ job = NoJob
    /\ ToolsIdle
    /\ WebIdle
    /\ max_retries = 3
    /\ max_fragments = MaxFragments
    /\ ops = 0
    /\ cleared = 0
    /\ conversation_history = << >>
    /\ last_prompt = NoPrompt
    /\ c_pc = "idle"
    /\ c_message = << >>
    /\ c_prompt = NoArg
    /\ c_payload = << >>
    /\ c_attempt = 0
    /\ c_last_exception = NoException
    /\ c_result = NoResult
    /\ c_requests = 0
    /\ c_sleeps = << >>
    /\ c_last = << >>
    /\ c_failures = 0
    /\ c_hist0 = << >>
    /\ s_pc = "none"
    /\ s_message = << >>
    /\ s_prompt = NoArg
    /\ s_payload = << >>
    /\ s_attempt = 0
    /\ s_last_exception = NoException
    /\ s_content = << >>
    /\ s_yield = << >>
    /\ s_result = NoResult
    /\ s_requests = 0
    /\ s_sleeps = << >>
    /\ s_last = << >>
    /\ s_emitted = << >>
    /\ s_partial = FALSE
    /\ s_end = << >>
    /\ s_response = "none"
    /\ s_shared = FALSE
    /\ s_sent = << >>

webRest == <<toolVars, max_retries, max_fragments, ops, cleared, last_prompt, callVars,
             streamVars>>

\* the call of the thread t ends
WebDone(t, reply) ==
    /\ w_pc' = [w_pc EXCEPT ![t] = "done"]
    /\ w_reply' = [w_reply EXCEPT ![t] = reply]
    /\ w_attempt' = [w_attempt EXCEPT ![t] = 0]

\* the thread t goes on to attempt a of its call, or leaves the loop
WebLoop(t, a) ==
    IF InRange(a, max_retries)
    THEN /\ w_pc' = [w_pc EXCEPT ![t] = "post"]
         /\ w_attempt' = [w_attempt EXCEPT ![t] = a]
         /\ UNCHANGED w_reply
    ELSE WebDone(t, << >>)

\* a POST arrives and the thread t runs the view index or analyze:
\* suite.generate_commands(target) or suite.analyze_bounty(bounty_text), that
\* is call_deepseek(message, system_prompt) up to its first request
WebRequest(t, route) ==
    /\ w_pc[t] = "idle"
    /\ w_served < MaxWebRequests
    /\ w_served' = w_served + 1
    /\ w_route' = [w_route EXCEPT ![t] = route]
    /\ conversation_history' = set_system_prompt(conversation_history, RoutePrompt(route))
    /\ WebLoop(t, 0)
    /\ UNCHANGED webRest

\* requests.post of the thread t answers with o; on success the user turn
\* is appended
WebPost(t, o) ==
    /\ w_pc[t] = "post"
    /\ LET exc == AttemptException(o)
           h == CallExcept(exc)
       IN  IF exc = NoException
           THEN /\ conversation_history' =
                       Append(conversation_history, Turn("user", RouteMessage(w_route[t])))
                /\ w_pc' = [w_pc EXCEPT ![t] = "append"]
                /\ w_reply' = [w_reply EXCEPT ![t] = <<AssistantMessage(o)>>]
                /\ UNCHANGED w_attempt
           ELSE /\ UNCHANGED conversation_history
                /\ IF ~h.retry THEN WebDone(t, << >>)
                   ELSE IF BackoffDue(w_attempt[t], max_retries)
                   THEN /\ w_pc' = [w_pc EXCEPT ![t] = "sleep"]
                        /\ UNCHANGED <<w_attempt, w_reply>>
                   ELSE WebLoop(t, w_attempt[t] + 1)
    /\ UNCHANGED <<webRest, w_route, w_served>>

\* the second append of the thread t: the assistant turn
WebAppend(t) ==
    /\ w_pc[t] = "append"
    /\ conversation_history' =
           Append(conversation_history, Turn("assistant", w_reply[t][1]))
    /\ WebDone(t, w_reply[t])
    /\ UNCHANGED <<webRest, w_route, w_served>>

\* time.sleep(wait_time) of the thread t is over
WebSleep(t) ==
    /\ w_pc[t] = "sleep"
    /\ WebLoop(t, w_attempt[t] + 1)
    /\ UNCHANGED <<webRest, conversation_history, w_route, w_served>>

\* render_template: the thread t has answered its request
WebRespond(t) ==
    /\ w_pc[t] = "done"
    /\ w_pc' = [w_pc EXCEPT ![t] = "idle"]
    /\ w_route' = [w_route EXCEPT ![t] = NoRoute]
    /\ w_reply' = [w_reply EXCEPT ![t] = << >>]
    /\ UNCHANGED <<webRest, conversation_history, w_attempt, w_served>>

NextWeb ==
    \/ \E t \in Handlers, route \in Routes : WebRequest(t, route)
    \/ \E t \in Handlers, o \in Outcomes : WebPost(t, o)
    \/ \E t \in Handlers : WebAppend(t)
    \/ \E t \in Handlers : WebSleep(t)
    \/ \E t \in Handlers : WebRespond(t)

\* the views of the web server on their shared client
SpecWeb == InitWeb /\ [][NextWeb]_vars

\* ======================================================================
\* the properties
\* ======================================================================

\* the turns of h that are not system turns
NonSystem(h) == SelectSeq(h, LAMBDA t : t.role # "system")

\* the answer o is a 200 response whose message carries a content
HasContent(o) ==
    /\ o.kind = "response" /\ o.status = 200
    /\ o.body \in { BodyWithContent(t) : t \in Replies }
ContentOf(o) == o.body.choices[1][1].message[1].content[1]

\* the answer o is a 200 response with a JSON body without message content
LacksContent(o) ==
    /\ o.kind = "response" /\ o.status = 200
    /\ o.body \in { BodyMissingContent, BodyEmptyObject, BodyEmptyChoices }

\* the answer o is an HTTP status in 400..499 other than 429
IsClientError(o) ==
    o.kind = "response" /\ o.status >= 400 /\ o.status <= 499 /\ o.status # 429

\* the answer o is a 429 or a 5xx
IsRetryStatus(o) ==
    o.kind = "response" /\ (o.status = 429 \/ (o.status >= 500 /\ o.status <= 599))

\* h1 is h0 plus exactly the pair (user m, assistant a) at its end; the only
\* other difference allowed is the system turn when a prompt p was passed
GainsOnePair(h0, h1, m, a, p) ==
    /\ Len(h1) >= 2
    /\ h1[Len(h1) - 1] = Turn("user", m)
    /\ h1[Len(h1)] = Turn("assistant", a)
    /\ NonSystem(SubSeq(h1, 1, Len(h1) - 2)) = NonSystem(h0)
    /\ p = NoArg => SubSeq(h1, 1, Len(h1) - 2) = h0

CallExhaustedNow ==
    c_pc = "done" /\ c_requests >= 1 /\ c_failures = c_requests

\* C1: for every N with 0 <= N < max_retries, a call_deepseek whose first N
\* requests fail transiently and whose request N+1 is answered by a 200 with
\* content returns that content after exactly N+1 requests, and the history
\* has gained exactly one (user, assistant) pair.
C1_RetryThenSuccess ==
    \A N \in 0..(max_retries - 1) :
        (c_pc = "done" /\ c_failures = N /\ c_last # << >> /\ HasContent(c_last[1]))
            => /\ c_result = Returned(<<ContentOf(c_last[1])>>)
               /\ c_requests = N + 1
               /\ GainsOnePair(c_hist0, conversation_history, c_message,
                               ContentOf(c_last[1]), c_prompt)

\* a call that succeeded at its fourth request, on a history that was not empty
C1_Witness ==
    /\ c_pc = "done" /\ c_failures = 3 /\ c_requests = 4
    /\ c_result.kind = "return"
    /\ c_hist0 # << >>
    /\ Len(conversation_history) = Len(c_hist0) + 2

\* C2: when all max_retries requests of a call_deepseek fail transiently the
\* call raises a terminal error and the history is what it was before the
\* call, with or without the system prompt argument.
C2_ExhaustedHistoryUnchanged ==
    CallExhaustedNow
        => /\ c_result.kind = "raise"
           /\ c_requests = max_retries
           /\ conversation_history = c_hist0

\* C3 as stated: a 4xx other than 429 fails the call (and the stream) with an
\* API error, exactly one request having been sent and no backoff wait made.
C3_ClientErrorSingleRequest ==
    /\ (c_last # << >> /\ IsClientError(c_last[1]))
           => /\ c_pc = "done"
              /\ c_result.kind = "raise" /\ c_result.error = "DeepSeekAPIError"
              /\ c_requests = 1 /\ c_sleeps = << >>
    /\ (s_last # << >> /\ IsClientError(s_last[1]))
           => /\ s_pc = "done"
              /\ s_result.kind = "raise" /\ s_result.error = "DeepSeekAPIError"
              /\ s_requests = 1 /\ s_sleeps = << >>

\* C3 as amended: a 4xx other than 429 fails the call (and the stream) with an
\* API error at once: the request it answers is the last of the call and no
\* backoff wait follows it, so the waits made are those between the requests;
\* when it answers the first request, one request was sent and no wait made.
C3_ClientErrorNoRetry ==
    /\ (c_last # << >> /\ IsClientError(c_last[1]))
           => /\ c_pc = "done"
              /\ c_result.kind = "raise" /\ c_result.error = "DeepSeekAPIError"
              /\ Len(c_sleeps) = c_requests - 1
              /\ c_requests = c_failures + 1
              /\ c_failures = 0 => (c_requests = 1 /\ c_sleeps = << >>)
    /\ (s_last # << >> /\ IsClientError(s_last[1]))
           => /\ s_pc = "done"
              /\ s_result.kind = "raise" /\ s_result.error = "DeepSeekAPIError"
              /\ Len(s_sleeps) = s_requests - 1

\* a call ended by a 400 that answers its second request, after one wait
C3_Witness ==
    /\ c_pc = "done" /\ c_last # << >> /\ IsClientError(c_last[1])
    /\ c_requests = 2 /\ Len(c_sleeps) = 1
    /\ c_result.error = "DeepSeekAPIError"

\* C4 as stated: a 429 or 5xx answer to a request of call_deepseek is followed
\* by a further request, and the call never makes more than max_retries
\* requests, for every max_retries >= 1.
C4_RetryStatusAlwaysRetried ==
    max_retries >= 1 =>
        /\ c_requests <= max_retries
        /\ (c_last # << >> /\ IsRetryStatus(c_last[1])) => c_pc \in {"sleep", "post"}

\* C4 as amended: a 429 or 5xx answer to request k of call_deepseek is
\* followed by a further request exactly when k < max_retries (after the
\* backoff wait); the answer to request max_retries ends the call with the
\* terminal error; the call never makes more than max_retries requests.
C4_RetryStatusRetriedWithinBudget ==
    /\ c_requests <= max_retries
    /\ (c_last # << >> /\ IsRetryStatus(c_last[1])) =>
           IF c_requests < max_retries
           THEN /\ c_pc \in {"sleep", "post"}
                /\ c_pc = "post" => Len(c_sleeps) = c_requests
                /\ c_result = NoResult
           ELSE /\ c_pc = "done"
                /\ c_result.kind = "raise"
    /\ c_pc = "post" => c_requests < max_retries

\* a 429 answered the first request, the wait is over and the second request
\* is about to be sent
C4_Witness ==
    /\ c_pc = "post" /\ c_requests = 1 /\ c_sleeps = <<2>>
    /\ c_last # << >> /\ IsRetryStatus(c_last[1]) /\ c_last[1].status = 429

\* C5: when every attempt of a call_deepseek fails transiently, exactly
\* max_retries requests are sent and exactly max_retries - 1 backoff waits
\* happen: one wait before each attempt but the first, none after the last.
C5_ExhaustedCounts ==
    /\ CallExhaustedNow
           => /\ c_requests = max_retries
              /\ Len(c_sleeps) = max_retries - 1
              /\ c_result.kind = "raise"
    /\ c_pc = "post" => Len(c_sleeps) = c_requests
    /\ c_pc = "sleep" => Len(c_sleeps) = c_requests - 1

\* four failed attempts out of four, three waits
C5_Witness ==
    /\ CallExhaustedNow
    /\ max_retries = 4 /\ c_requests = 4 /\ Len(c_sleeps) = 3

C7_DocumentedSequence ==
    /\ \A k \in 1..Len(c_sleeps) : k <= 3 => c_sleeps[k] = <<2, 5, 9>>[k]
    /\ \A k \in 1..Len(s_sleeps) : k <= 3 => s_sleeps[k] = <<2, 5, 9>>[k]

\* C8: a 200 answer without message content fails call_deepseek with a
\* DeepSeekResponseError after exactly one request, without retry, and no
\* turn is appended to the history.
C8_MissingContentIsResponseError ==
    (c_last # << >> /\ LacksContent(c_last[1]))
        => /\ c_pc = "done"
           /\ c_result.kind = "raise" /\ c_result.error = "DeepSeekResponseError"
           /\ c_requests = 1
           /\ NonSystem(conversation_history) = NonSystem(c_hist0)

\* the positions of h that hold a system turn
SystemTurns(h) == { i \in 1..Len(h) : h[i].role = "system" }

\* at most one system turn, first in the history, holding the prompt set last
SystemTurnOK(h, last) ==
    /\ SystemTurns(h) \subseteq {1}
    /\ last = << >> => SystemTurns(h) = {}
    /\ last # << >> => (h # << >> /\ h[1] = Turn("system", last[1]))

\* the history h after the prompt p has been set on it
WithPrompt(h, p) ==
    IF 1 \in SystemTurns(h) THEN <<Turn("system", p)>> \o Tail(h)
    ELSE <<Turn("system", p)>> \o h

\* C9: after any sequence of set_system_prompt, call_deepseek,
\* stream_call_deepseek and clear_history the history holds at most one system
\* turn, at index 0, whose content is the prompt set last; a step that sets a
\* prompt replaces turn 0 in place if it is a system turn and otherwise
\* inserts the system turn at position 0, the other turns staying as they are.
C9_SingleSystemTurn ==
    [][ /\ SystemTurnOK(conversation_history', last_prompt')
        /\ (ops' # ops /\ c_pc' = c_pc /\ s_pc' = s_pc /\ last_prompt' # << >>)
               => conversation_history' = WithPrompt(conversation_history, last_prompt'[1])
        /\ ((c_pc = "idle" /\ c_pc' # "idle" /\ c_prompt' # NoArg)
             \/ (s_pc = "created" /\ s_pc' \in {"post", "done"} /\ s_prompt # NoArg
                   /\ s_result' # Closed))
               => conversation_history' = WithPrompt(conversation_history, last_prompt'[1])
      ]_vars

\* the prompt p2 stands in turn 0, before an exchange, after two operations
C9_Witness ==
    /\ ops = 2
    /\ Len(conversation_history) = 3
    /\ conversation_history[1] = Turn("system", <<"p2">>)
    /\ last_prompt = << <<"p2">> >>

\* the non-system turns alternate user, assistant, starting with user
Alternates(h) ==
    LET ns == NonSystem(h)
    IN  /\ Len(ns) % 2 = 0
        /\ \A i \in 1..Len(ns) :
               ns[i].role = IF i % 2 = 1 THEN "user" ELSE "assistant"

\* ns1 is ns0 plus one (user, assistant) pair
OnePairMore(ns0, ns1) ==
    /\ Len(ns1) = Len(ns0) + 2
    /\ SubSeq(ns1, 1, Len(ns0)) = ns0
    /\ ns1[Len(ns1) - 1].role = "user"
    /\ ns1[Len(ns1)].role = "assistant"

\* C10: in every state the non-system turns of the history are even in number
\* and alternate user, assistant starting with user; a step changes them only
\* by emptying the history or by appending one whole pair, and the step that
\* appends a pair ends its call, so a call, retried or not, adds at most one.
C10_PairsOnly ==
    [][ LET ns0 == NonSystem(conversation_history)
            ns1 == NonSystem(conversation_history')
        IN  /\ Alternates(conversation_history')
            /\ ns1 # ns0 =>
                   \/ conversation_history' = << >>
                   \/ /\ OnePairMore(ns0, ns1)
                      /\ \/ c_pc = "post" /\ c_pc' = "done" /\ c_result'.kind = "return"
                         \/ s_pc = "reading" /\ s_pc' = "done" /\ s_result'.kind = "return"
      ]_vars

\* a retried call has added the second pair of the history
C10_Witness ==
    /\ c_pc = "done" /\ c_failures >= 1 /\ c_result.kind = "return"
    /\ Len(NonSystem(conversation_history)) = 4

\* the call, or the generator, ended with the error raised after its loop
CallGaveUp == c_pc = "done" /\ c_result.kind = "raise" /\ c_result.line \in 180..195
StreamGaveUp == s_pc = "done" /\ s_result.kind = "raise" /\ s_result.line \in 267..282

\* C11: when all attempts are exhausted the terminal error of call_deepseek
\* and of stream_call_deepseek carries the attempt count and the timeout
\* value, whichever retryable kind (timeout, connection failure, 5xx, 429) the
\* last failed attempt had.
C11_ExhaustedCarriesDiagnostics ==
    /\ (CallGaveUp /\ c_requests >= 1) =>
           LET msg == ErrorMessage(c_result.line, max_retries)
           IN  msg.attempts = <<max_retries>> /\ msg.timeout = <<timeout>>
    /\ (StreamGaveUp /\ s_requests >= 1) =>
           LET msg == ErrorMessage(s_result.line, max_retries)
           IN  msg.attempts = <<max_retries>> /\ msg.timeout = <<stream_timeout>>

\* the texts of parts one after the other, built from the last one back
RECURSIVE Concatenation(_)
Concatenation(parts) ==
    IF parts = << >> THEN << >>
    ELSE Concatenation(SubSeq(parts, 1, Len(parts) - 1)) \o parts[Len(parts)]

\* the step in which an attempt of the generator completes
StreamCompletes ==
    s_pc = "reading" /\ s_pc' = "done" /\ s_end' \in { <<"break">>, <<"eof">> }

\* C12: when an attempt of stream_call_deepseek completes, the text accumulated
\* in it is appended to the history as one assistant turn, after the user
\* turn, if and only if it is not empty, and that text is the concatenation,
\* in order, of the fragments yielded to the caller during that attempt.
C12_StreamCommit ==
    [][ StreamCompletes =>
            LET text == Concatenation(s_emitted)
            IN  /\ s_result' = Returned(<< >>)
                /\ conversation_history' =
                       IF text # << >>
                       THEN conversation_history
                                \o <<Turn("user", s_message), Turn("assistant", text)>>
                       ELSE conversation_history
      ]_vars

\* a stream that yielded "a" then "b" has committed the text "ab"
C12_Witness ==
    /\ s_pc = "done" /\ s_end = <<"break">> /\ s_result.kind = "return"
    /\ Len(conversation_history) >= 2
    /\ conversation_history[Len(conversation_history) - 1] = Turn("user", <<"m2">>)
    /\ conversation_history[Len(conversation_history)] = Turn("assistant", <<"a", "b">>)

\* C13: the fragments accumulated in a failed stream attempt are discarded
\* before the retry; the buffer holds the fragments of the current attempt
\* only, so the text a later success commits has nothing of a failed attempt
\* (or of the notice), and a stream that ends with an error commits nothing.
C13_PartialDiscarded ==
    [][ /\ (s_pc = "susp_notice" /\ s_pc' = "post")
               => (s_content' = << >> /\ conversation_history' = conversation_history)
        /\ s_pc' \in {"post", "reading", "susp_frag"} => s_content' = s_emitted'
        /\ (StreamCompletes /\ conversation_history' # conversation_history)
               => conversation_history'[Len(conversation_history')].content
                      = Concatenation(s_emitted)
        /\ (s_pc \in {"post", "reading", "susp_notice"} /\ s_pc' = "done"
               /\ s_result'.kind = "raise")
               => conversation_history' = conversation_history
      ]_vars

\* after a failed attempt that had yielded text, the retry has committed the
\* one fragment it yielded itself
C13_Witness ==
    /\ s_pc = "done" /\ s_partial /\ s_result.kind = "return" /\ s_requests >= 2
    /\ Len(conversation_history) >= 2
    /\ conversation_history[Len(conversation_history)] = Turn("assistant", <<"a">>)

\* C14: a marked frame whose payload is not JSON ends the attempt as a
\* retryable fault: the request is retried with backoff, and the error
\* reaches the caller only when the retries are exhausted.
C14_MalformedFrameRetried ==
    s_end = <<"DeepSeekResponseError">> =>
        /\ s_requests < max_retries => s_pc \in {"susp_notice", "post"}
        /\ (s_pc = "done" /\ s_result.kind = "raise") => s_requests = max_retries

\* C15: when the consumer closes the generator while it is suspended at a
\* fragment yield, the response is closed, no request and no backoff wait is
\* made then or later, and no turn is appended to the history.
C15_CloseAtFragment ==
    [][ /\ (s_pc = "susp_frag" /\ s_result' = Closed)
               => /\ s_pc' = "done"
                  /\ s_response' = "closed"
                  /\ s_requests' = s_requests /\ s_sleeps' = s_sleeps
                  /\ conversation_history' = conversation_history
        /\ (s_pc = "done" /\ s_result = Closed)
               => /\ s_pc' \in {"done", "none"}
                  /\ s_requests' <= s_requests /\ Len(s_sleeps') <= Len(s_sleeps)
      ]_vars

\* a generator closed at a fragment of its second attempt
C15_Witness ==
    /\ s_pc = "done" /\ s_result = Closed /\ s_response = "closed"
    /\ s_requests = 2 /\ s_end = << >>
    /\ s_last # << >> /\ s_last[1].kind = "response" /\ s_last[1].status = 200

\* C16: clear_history leaves the history empty whatever it held, a system
\* turn included, from every state in which the caller can make it; made a
\* second time it leaves the same empty history.
C16_ClearHistory ==
    [][ cleared' # cleared
            => /\ cleared' = cleared + 1
               /\ conversation_history' = << >>
               /\ last_prompt' = NoPrompt
      ]_vars

\* clear_history has been called twice in a row
C16_Witness ==
    /\ cleared = 2 /\ ops = 2 /\ conversation_history = << >>

\* the first whitespace-delimited token of a command (empty if there is none)
FirstToken(command) ==
    LET solid == { i \in 1..Len(command) : command[i] \notin Whitespace }
    IN  IF solid = {} THEN << >>
        ELSE LET a == CHOOSE i \in solid : \A j \in solid : i <= j
                 b == CHOOSE i \in a..Len(command) :
                          /\ \A k \in a..i : k \in solid
                          /\ (i + 1) \notin solid
             IN  SubSeq(command, a, b)

\* the part of a token after its last '/'
FinalSegment(token) ==
    LET slashes == { i \in 1..Len(token) : token[i] = "/" }
    IN  IF slashes = {} THEN token
        ELSE SubSeq(token, (CHOOSE i \in slashes : \A j \in slashes : j <= i) + 1,
                    Len(token))

\* a name without its trailing .sh or .py, otherwise as it is
WithoutSuffix(name) ==
    LET n == Len(name)
    IN  IF n >= 3 /\ SubSeq(name, n - 2, n) \in {DotSh, DotPy}
        THEN SubSeq(name, 1, n - 3)
        ELSE name

Name_testssl == <<"t", "e", "s", "t", "s", "s", "l">>
Name_testssl_sh == <<"t", "e", "s", "t", "s", "s", "l", ".", "s", "h">>

\* C17: for every command string extract_tool_from_command returns the first
\* whitespace-delimited token, reduced to its final path segment, with a
\* trailing .sh or .py removed and nothing else changed; empty or blank input
\* gives the empty name; '~/tools/testssl.sh host.com' gives 'testssl' and
\* 'nmap -sV x' gives 'nmap'.
C17_ToolNameRule ==
    (job.op = "extract" /\ r_pc = "done") =>
        /\ r_tool = WithoutSuffix(FinalSegment(FirstToken(job.command_string)))
        /\ job.command_string = Sample.Cmd_testssl_host => r_tool = Name_testssl
        /\ job.command_string = Sample.Cmd_nmap_sV => r_tool = Sample.Tool_nmap
        /\ strip(job.command_string) = << >> => r_tool = << >>

\* C18: for every tool name t of the catalog probed by get_available_tools,
\* a command whose first token is t, with or without a path before it, gives
\* exactly t; '~/tools/testssl.sh https://example.com' gives 'testssl.sh'.
C18_CatalogNamesExtracted ==
    (job.op = "extract" /\ r_pc = "done") =>
        /\ \A t \in common_tools :
               job.command_string \in CatalogCommands(t) => r_tool = t
        /\ job.command_string = Sample.Cmd_testssl_url => r_tool = Name_testssl_sh

\* the rules of the timeout, in their order
TimeoutRules ==
    << [patterns |-> {Pat_nmap_p, Pat_script_vuln}, seconds |-> 300],
       [patterns |-> {Pat_waybackurls, Pat_gau}, seconds |-> 240],
       [patterns |-> {Pat_nuclei}, seconds |-> 180],
       [patterns |-> {Pat_amass}, seconds |-> 240],
       [patterns |-> {Pat_nmap}, seconds |-> 120],
       [patterns |-> {Pat_ffuf, Pat_gobuster_dir}, seconds |-> 180] >>

\* the seconds of the first rule one of whose patterns occurs in cmd
FirstMatch(cmd, default) ==
    LET hits == { i \in 1..Len(TimeoutRules) :
                      \E pat \in TimeoutRules[i].patterns : Contains(cmd, pat) }
    IN  IF hits = {} THEN default
        ELSE TimeoutRules[CHOOSE i \in hits : \A j \in hits : i <= j].seconds

\* C19: the timeout of an executed command is the one of the first rule, in
\* the order full nmap scan or vulnerability script 300, archive fetch 240,
\* nuclei 180, amass 240, nmap 120, ffuf or 'gobuster dir' 180, that matches
\* it, and the caller's default when none does: 'nmap -p- --script vuln x'
\* gets 300, 'nmap -sV x' gets 120, 'echo hi' gets the default.
C19_TimeoutRules ==
    \A k \in 1..Len(r_executed) :
        LET e == r_executed[k]
        IN  /\ e.timeout = FirstMatch(e.cmd, job.default_timeout)
            /\ e.cmd = Sample.Cmd_nmap_full_vuln => e.timeout = 300
            /\ e.cmd = Sample.Cmd_nmap_sV => e.timeout = 120
            /\ e.cmd = Sample.Cmd_echo_hi => e.timeout = job.default_timeout

\* 'nmap -p- --script vuln x' has run with 300 seconds where the default is 600
C19_Witness ==
    /\ job.default_timeout = 600
    /\ Len(r_executed) = 1
    /\ r_executed[1].cmd = Sample.Cmd_nmap_full_vuln
    /\ r_executed[1].timeout = 300

\* the command lines of a block: its lines without the blanks around them,
\* the empty ones and the comments left out
CommandLines(text) ==
    LET raw == split_on(text, "\n")
        stripped == [i \in 1..Len(raw) |-> strip(raw[i])]
    IN  SelectSeq(stripped, LAMBDA l : l # << >> /\ l[1] # "#")

\* the commands of the subprocess.run calls made so far
ExecutedCommands == [k \in 1..Len(r_executed) |-> r_executed[k].cmd]

\* C20: with availability checking on, the command lines are split in input
\* order into those whose extracted tool name is in the available set and the
\* others; the others are reported as skipped, and when the first part is not
\* empty exactly its lines are run (all of them when the answer is 'all'):
\* with {nmap, httpx} available and the lines nmap, subfinder, httpx,
\* ghost-tool the nmap and httpx lines run and 2 are reported skipped.
C20_AvailabilityPartition ==
    (job.op = "run" /\ job.check_availability /\ r_pc # "idle") =>
        LET lines == CommandLines(job.command_string)
            available == job.installed \cap common_tools
            usable == SelectSeq(lines, LAMBDA l :
                          extract_tool_from_command(l) \in available)
            others == SelectSeq(lines, LAMBDA l :
                          extract_tool_from_command(l) \notin available)
        IN  /\ r_unavailable = others
            /\ usable # << >> =>
                   /\ r_commands = usable
                   /\ \A k \in 1..Len(r_executed) :
                          \E n \in 1..Len(usable) : r_executed[k].cmd = usable[n]
                   /\ (r_pc = "done" /\ r_choice = "all") => ExecutedCommands = usable
            /\ (job.command_string = JoinLines(ExampleBlock)
                   /\ job.installed = {Sample.Tool_nmap, Sample.Tool_httpx}
                   /\ r_pc = "done" /\ r_choice = "all")
                   => /\ ExecutedCommands = <<Sample.Line_nmap, strip(Sample.Line_httpx)>>
                      /\ Len(r_unavailable) = 2

\* the four lines of the example have been handled with {nmap, httpx}
C20_Witness ==
    /\ job.command_string = JoinLines(ExampleBlock)
    /\ job.check_availability /\ job.installed = {Sample.Tool_nmap, Sample.Tool_httpx}
    /\ r_pc = "done" /\ r_choice = "all"
    /\ Len(r_executed) = 2 /\ Len(r_unavailable) = 2

\* the text of a command holds a pipe or a redirect character
HasShellCharacter(cmd) == Contains(cmd, <<"|">>) \/ Contains(cmd, <<"<">>) \/ Contains(cmd, <<">">>)

\* C21: every executed command goes through one execution mode chosen by its
\* text: through the shell if and only if the text holds '|', '<' or '>', and
\* as an argument list spawned without a shell otherwise.
C21_ExecutionMode ==
    \A k \in 1..Len(r_executed) :
        r_executed[k].shell <=> HasShellCharacter(r_executed[k].cmd)

\* the four lines of the block have run: nmap without a shell, the pipe and
\* the two redirects through it
C21_Witness ==
    /\ job.command_string = JoinLines(ShellBlock)
    /\ r_pc = "done"
    /\ Len(r_executed) = 4
    /\ ~r_executed[1].shell /\ r_executed[2].shell
    /\ r_executed[3].shell /\ r_executed[4].shell

\* C22: a failure of one command (timeout, executable not found, any other
\* failure) does not end the run: with the answer 'all' the commands are
\* taken in list order, one after the other, whatever the earlier ones did,
\* and when the run is over every command of the list has been taken.
C22_FailureNotFatal ==
    /\ r_pc # "raised"
    /\ r_choice = "all" =>
           /\ Len(r_executed) <= Len(r_commands)
           /\ ExecutedCommands = SubSeq(r_commands, 1, Len(r_executed))
           /\ r_pc = "exec" => r_i = Len(r_executed) + 1
           /\ r_pc = "done" => ExecutedCommands = r_commands

\* 'echo "hi' could not be split, and the two commands after it have run, the
\* last one timing out
C22_Witness ==
    /\ job.command_string = JoinLines(QuoteBlock)
    /\ ~job.check_availability
    /\ r_choice = "all" /\ r_pc = "done"
    /\ Len(r_executed) = 3
    /\ r_executed[1].cmd = Sample.Line_open_quote
    /\ r_outcome = "TimeoutExpired"

\* the message list a call builds: the history as the call found it, the
\* system prompt applied, and the new user turn last
PayloadOf(h, sp, m) == Append(ApplyPrompt(h, sp), Turn("user", m))

\* C23: every request of one call_deepseek or stream_call_deepseek call
\* carries the same message list: the history as it stood when the call
\* began, with the system prompt applied so that the system turn is first,
\* and the new user turn last; a retry sends what the attempt before it sent.
C23_SamePayloadEveryAttempt ==
    [][ /\ c_requests' = c_requests + 1
            => c_payload = PayloadOf(c_hist0, c_prompt, c_message)
        /\ s_requests' = s_requests + 1
            => /\ s_sent'[Len(s_sent')] = Turn("user", s_message)
               /\ s_prompt # NoArg => s_sent'[1] = Turn("system", s_prompt)
               /\ s_requests >= 1 => s_sent' = s_sent
      ]_vars

\* the generator is inside its loop
StreamRunning == s_pc \in {"post", "reading", "susp_frag", "susp_notice"}

\* C24: in stream_call_deepseek one notice is yielded between each failed
\* attempt and the retry that follows it (so a retry is reached with as many
\* notices behind it as failed attempts), none after the final failed
\* attempt, and after the error raised on exhaustion nothing is yielded.
C24_OneNoticePerRetry ==
    /\ [](StreamRunning =>
              /\ Len(s_sleeps) = s_attempt
              /\ s_requests = IF s_pc = "post" THEN s_attempt ELSE s_attempt + 1)
    /\ [](s_pc = "susp_notice" =>
              /\ s_attempt + 1 < max_retries
              /\ s_yield = <<NoticeItem(s_attempt + 1, wait_time(s_attempt))>>)
    /\ [](StreamGaveUp =>
              /\ s_yield = << >>
              /\ s_requests = max_retries
              /\ Len(s_sleeps) = IF max_retries = 0 THEN 0 ELSE max_retries - 1)
    /\ [][s_pc = "done" => s_pc' = "none" /\ s_yield' = << >>]_vars

\* three attempts failed: two notices were taken, then the error was raised
C24_Witness ==
    /\ max_retries = 3
    /\ StreamGaveUp
    /\ s_requests = 3
    /\ s_sleeps = <<2, 3>>

\* C25: a streamed exchange is appended to the history only after the
\* sentinel frame '[DONE]' has been received: a body that ends without the
\* sentinel does not commit its accumulated text, and after the sentinel no
\* fragment is yielded or committed.
C25_CommitOnlyAfterSentinel ==
    [][ /\ (s_pc = "reading" /\ conversation_history' # conversation_history)
            => s_end' = <<"break">>
        /\ (s_pc = "reading" /\ s_end' = <<"break">>)
            => s_pc' = "done" /\ s_yield' = << >>
      ]_vars

\* C26: run_generated_commands never executes a comment line or an empty
\* line: with availability checking on or off, and in the fallback where no
\* tool is available, each executed command is a non-empty line whose first
\* non-blank character is not '#'.
C26_NoCommentExecuted ==
    \A k \in 1..Len(r_executed) :
        LET line == LStrip(r_executed[k].cmd)
        IN  line # << >> /\ line[1] # "#"

\* a line of the command list that is a comment
IsComment(cmd) == cmd # << >> /\ cmd[1] = "#"

\* C27: with availability checking on, if no command line uses an available
\* tool then all the command lines of the block go on to execution, and if
\* at least one does then no line classified unavailable is ever executed.
C27_FallbackOrAvailableOnly ==
    (job.op = "run" /\ job.check_availability /\ r_pc \notin {"idle"}) =>
        LET lines == CommandLines(job.command_string)
            available == job.installed \cap common_tools
            usable == SelectSeq(lines, LAMBDA l :
                          extract_tool_from_command(l) \in available)
        IN  IF usable = << >>
            THEN /\ SelectSeq(r_commands, LAMBDA c : ~IsComment(c)) = lines
                 /\ (r_pc = "done" /\ r_choice = "all")
                        => SelectSeq(ExecutedCommands, LAMBDA c : ~IsComment(c)) = lines
            ELSE \A k \in 1..Len(r_executed) :
                     /\ extract_tool_from_command(r_executed[k].cmd) \in available
                     /\ \A n \in 1..Len(r_unavailable) :
                            r_executed[k].cmd # r_unavailable[n]

\* only subfinder is installed and the block names nmap and ghost-tool: both
\* lines have run all the same
C27_Witness ==
    /\ job.check_availability /\ job.installed = {Sample.Tool_subfinder}
    /\ job.command_string = JoinLines(<<Sample.Line_nmap, Sample.Line_ghost>>)
    /\ r_pc = "done" /\ r_choice = "all"
    /\ ExecutedCommands = <<Sample.Line_nmap, Sample.Line_ghost>>
    /\ Len(r_unavailable) = 2

\* the handler threads that are inside call_deepseek
InCall == { t \in Handlers : w_pc[t] \in {"post", "sleep", "append"} }

C29_PairIntactAfterInterleaving ==
    [][ (StreamCompletes /\ s_emitted # << >>) =>
            /\ conversation_history' =
                   conversation_history
                       \o << Turn("user", s_message),
                             Turn("assistant", Concatenation(s_emitted)) >>
            /\ SystemTurns(conversation_history') \subseteq {1}
            /\ Alternates(conversation_history')
      ]_vars

\* the stream sent a system turn, the history was cleared while it was
\* suspended at its fragment, and its pair is now all the history holds
C29_Witness ==
    /\ s_pc = "done" /\ s_result.kind = "return"
    /\ cleared = 1 /\ ops = 2
    /\ s_sent # << >> /\ s_sent[1].role = "system"
    /\ conversation_history = << Turn("user", s_message), Turn("assistant", <<"a">>) >>

\* C30: run_generated_commands spawns no process without the user's
\* confirmation: after an answer to the run prompt other than 'all' or 'one'
\* nothing is executed; with 'one' a command is executed only when its own
\* confirmation was 'y'; after the answer 'n' to the run-next prompt no
\* later command is executed.
C30_NothingRunsUnconfirmed ==
    /\ [](r_choice \notin {"all", "one"} => r_executed = << >>)
    /\ []((r_choice = "one" /\ r_pc = "exec") => r_answer = "y")
    /\ [][ r_executed' # r_executed =>
               /\ r_pc = "exec"
               /\ Len(r_executed') = Len(r_executed) + 1
               /\ r_executed'[Len(r_executed')].cmd = r_commands[r_i]
          ]_vars
    /\ [][ (r_pc = "next" /\ r_answer' = "n") => r_pc' = "done" ]_vars
    /\ [][ r_pc = "done" => r_pc' = "done" /\ r_executed' = r_executed ]_vars

\* with 'one' the first command was declined and the second confirmed and
\* run, and the answer 'n' then ended the run before the third
C30_Witness ==
    /\ r_choice = "one" /\ r_pc = "done" /\ r_answer = "n"
    /\ Len(r_commands) = 3 /\ r_i = 2
    /\ ExecutedCommands = <<r_commands[2]>>
    /\ r_commands[1] # r_commands[2]

====
